---- MODULE Spec2Model ----
(***************************************************************************)
(* slimmer.py: blame reassignment over a package dependency graph.         *)
(*                                                                         *)
(* main() builds pkgs_by_name (name -> Pkg with size, dep_children,        *)
(* dep_parents), picks the packages without parents, runs reassign_blame   *)
(* from each of them, sorts them by size and prints the first n.           *)
(*                                                                         *)
(* The recursion of _recurse_reassign_blame is modelled with an explicit   *)
(* call stack: one frame per active call, holding the package, the depth   *)
(* argument, the children the for loop has not yet iterated and the        *)
(* position in the function body.                                          *)
(*                                                                         *)
(* Sizes: installed_size is an int, "/" is Python's true division and "+="  *)
(* on its result is float addition, so a size is an IEEE-754 binary64       *)
(* value.  A double is modelled bit for bit as <<hi, lo, e>>: its 53-bit    *)
(* significand is hi * 2^27 + lo with 2^25 <= hi < 2^26, its value is the   *)
(* significand times 2^e, and 0 is <<0, 0, 0>>.  Division and addition      *)
(* round to nearest, ties to even, as the hardware does.  An int that no    *)
(* float was added to is the double of the same value.  The value None of   *)
(* Pkg.size is the empty tuple.  Sizes are never negative.                  *)
(*                                                                         *)
(* Iteration orders: the order of pkgs_by_name.values() and the order in   *)
(* which a dep_children set iterates are inputs.  The upload loop over     *)
(* dep_parents is one step: every parent gets one addition, so its result  *)
(* does not depend on its order.                                           *)
(*                                                                         *)
(* print_summary: printed holds the names of the printed lines in order;   *)
(* the text of a line is not modelled.                                     *)
(***************************************************************************)
EXTENDS Integers, Sequences, FiniteSets, TLC

\* ---------------------------------------------------------------- bounds
\* Largest number of packages in the exhaustively enumerated graphs.
MaxPkgs == 3
\* Largest number of dependency edges in those graphs.
MaxEdges == 3
\* Largest sum of the packages' installed sizes in those graphs, and the
\* largest installed size of a package in the chains and the fans.
MaxTotal == 2
\* Largest number of packages in a dependency chain p1 -> p2 -> ... -> pn.
MaxChain == 12
\* Largest number of packages that depend on the same package in a fan.
MaxFan == 3
\* Largest value of the -n argument besides its default.
MaxN == 2

\* ------------------------------------------------------ program constants
MAX_DEPTH == 10
DEFAULT_N == 50

\* ---------------------------------------------------------------- numbers
None == <<>>

\* The significand of a double has 53 bits, held in two limbs: the upper 26
\* bits and the lower 27 bits.
Limb == 2^27

HiMin == 2^25

HiMax == 2^26

Zero == <<0, 0, 0>>

\* Number of bits of n: 0 for 0, else b with 2^(b-1) <= n < 2^b.
BitLen(n) ==
    CHOOSE b \in 0..31 :
        \/ b = 0 /\ n = 0
        \/ b > 0 /\ 2^(b - 1) <= n /\ (b = 31 \/ n < 2^b)

\* int -> float, for 0 <= i < 2^26: exact.
FromInt(i) ==
    IF i = 0 THEN Zero
    ELSE LET b == BitLen(i) IN <<i * 2^(26 - b), 0, b - 53>>

\* The double nearest to (a * 2^27 + b + f) * 2^e, ties to even, where
\* 2^26 <= a < 2^31, 0 <= b < 2^27, and 0 < f < 1 if sticky, f = 0 if not;
\* drop is the number of bits of a * 2^27 + b beyond 53.
RoundDropping(drop, a, b, sticky, e) ==
    LET p    == 2^drop
        hi   == a \div p
        lo   == (a % p) * 2^(27 - drop) + b \div p
        rem  == b % p
        half == p \div 2
        up   == rem > half \/ (rem = half /\ (sticky \/ lo % 2 = 1))
        lo1  == IF up THEN lo + 1 ELSE lo
        hi1  == IF lo1 = Limb THEN hi + 1 ELSE hi
    IN  IF hi1 = HiMax THEN <<HiMin, 0, e + drop + 1>>
        ELSE <<hi1, lo1 % Limb, e + drop>>

\* The operands are evaluated once, as the elements of a set.
RoundNearestEven(a, b, sticky, e) ==
    CHOOSE r \in {RoundDropping(BitLen(v[1]) - 26, v[1], v[2], v[3], v[4]) :
                     v \in {<<a, b, sticky, e>>}} : TRUE

\* x + y in float arithmetic.  The operand of the smaller exponent is
\* aligned to half a unit in the last place of the other one; the bits
\* shifted out are remembered as sticky.
AddAligned(x, y) ==
    LET big == IF x[3] >= y[3] THEN x ELSE y
        sml == IF x[3] >= y[3] THEN y ELSE x
        d   == big[3] - sml[3]
        a1  == big[1] * 2 + (big[2] * 2) \div Limb
        b1  == (big[2] * 2) % Limb
        a2  == sml[1] * 2 + (sml[2] * 2) \div Limb
        b2  == (sml[2] * 2) % Limb
        a3  == IF d < 27 THEN a2 \div 2^d ELSE 0
        b3  == IF d < 27 THEN (a2 % 2^d) * 2^(27 - d) + b2 \div 2^d
               ELSE IF d < 54 THEN a2 \div 2^(d - 27)
               ELSE 0
        st  == IF d < 27 THEN b2 % 2^d # 0
               ELSE IF d < 54 THEN a2 % 2^(d - 27) # 0 \/ b2 # 0
               ELSE TRUE
        bs  == b1 + b3
    IN  RoundNearestEven(a1 + a3 + bs \div Limb, bs % Limb, st, big[3] - 1)

FloatAdd(x, y) ==
    CHOOSE r \in {IF v[1] = Zero THEN v[2]
                  ELSE IF v[2] = Zero THEN v[1]
                  ELSE AddAligned(v[1], v[2]) : v \in {<<x, y>>}} : TRUE

\* x / k in float arithmetic for an int k, 1 <= k <= 15: long division of
\* the significand, extended by 5 bits, by k; the remainder is sticky.
LongDivision(x, k) ==
    LET q1 == x[1] \div k
        t2 == (x[1] % k) * Limb + x[2]
        q2 == t2 \div k
        t3 == (t2 % k) * 32
        q3 == t3 \div k
    IN  RoundNearestEven(q1 * 32 + q2 \div 2^22, (q2 % 2^22) * 32 + q3,
                         t3 % k # 0, x[3] - 5)

FloatDiv(x, k) ==
    CHOOSE r \in {IF v[1] = Zero THEN Zero ELSE LongDivision(v[1], v[2]) :
                     v \in {<<x, k>>}} : TRUE

\* x < y
FloatLess(x, y) ==
    /\ x # y
    /\ y # Zero
    /\ \/ x = Zero
       \/ x[3] < y[3]
       \/ x[3] = y[3] /\ x[1] < y[1]
       \/ x[3] = y[3] /\ x[1] = y[1] /\ x[2] < y[2]

\* x <= y
FloatLeq(x, y) == x = y \/ FloatLess(x, y)

\* ------------------------------------------------------------------ state
VARIABLES
    pkgs_by_name,   \* name -> [size, dep_children, dep_parents]
    iter_children,  \* name -> dep_children in the order the set iterates
    installed_size, \* name -> the int the package was created with
    root_packages,  \* the list main() holds in root_packages
    next_root,      \* index of reassign_blame's for loop into its argument
    stack,          \* active calls of _recurse_reassign_blame, outermost first
    pc,             \* position of main(): "pick", "blame", "sort", "print", "done",
                    \* or "raised" after an exception
    entered,        \* packages some call of _recurse_reassign_blame was made on
    uploads,        \* the blame uploads made so far, in order
    printed,        \* the names print_summary has printed, in order
    runs,           \* number of calls of reassign_blame started so far
    first_pass      \* name -> size as the first run of reassign_blame left
                    \* it, recorded when a second run starts

vars == <<pkgs_by_name, iter_children, installed_size, root_packages, next_root, stack,
          pc, entered, uploads, printed, runs, first_pass>>

Names == DOMAIN pkgs_by_name

\* ---------------------------------------------------------------- inputs
\* Number of parents of package p under the dependency relation E.
InDegree(E, p) == Cardinality({e \in E : e[2] = p})

RECURSIVE SumInts(_, _)
SumInts(f, S) ==
    IF S = {} THEN 0
    ELSE LET p == CHOOSE q \in S : TRUE IN f[p] + SumInts(f, S \ {p})

\* The sequences that hold every element of S once.
Perms(S) ==
    {s \in [1..Cardinality(S) -> S] : \A i, j \in DOMAIN s : s[i] = s[j] => i = j}

\* The program reads a name only to look a package up, so one numbering of
\* the packages stands for all: the packages are numbered by non-decreasing
\* number of parents and, with the same number of parents, by non-decreasing
\* installed size.  Every graph has such a numbering.
Numbered(n, E, sz) ==
    \A p \in 1..(n - 1) :
        \/ InDegree(E, p) < InDegree(E, p + 1)
        \/ InDegree(E, p) = InDegree(E, p + 1) /\ sz[p] <= sz[p + 1]

\* The graph and the sizes with package p renamed to r[p].
Renamed(E, r) == {<<r[e[1]], r[e[2]]>> : e \in E}

RenamedSizes(n, sz, r) == [q \in 1..n |-> sz[CHOOSE p \in 1..n : r[p] = q]]

\* A number that tells two graphs with sizes over 1..n apart.
Code(n, E, sz) ==
    SumInts([e \in E |-> 2^((e[1] - 1) * n + e[2] - 1)], E)
        + 2^(n * n) * SumInts([p \in 1..n |-> sz[p] * (MaxTotal + 1)^(p - 1)], 1..n)

\* Of the numberings of one graph that are Numbered, the one of least code.
Canonical(n, E, sz) ==
    /\ Numbered(n, E, sz)
    /\ \A r \in Perms(1..n) :
          Numbered(n, Renamed(E, r), RenamedSizes(n, sz, r))
              => Code(n, E, sz) <= Code(n, Renamed(E, r), RenamedSizes(n, sz, r))

\* Every dependency relation over the packages 1..n with at most MaxEdges
\* edges (self dependencies and cycles included).
SmallGraphs(n) ==
    {E \in SUBSET ((1..n) \X (1..n)) :
        /\ Cardinality(E) <= MaxEdges
        /\ \A p \in 1..(n - 1) : InDegree(E, p) <= InDegree(E, p + 1)}

\* The installed sizes of those packages: they add up to MaxTotal at most.
SmallSizes(n, E) ==
    {f \in [1..n -> 0..MaxTotal] :
        SumInts(f, 1..n) <= MaxTotal /\ Canonical(n, E, f)}

\* The chain 1 -> 2 -> ... -> n.
ChainGraph(n) == {<<i, i + 1>> : i \in 1..(n - 1)}

\* The packages of a chain have the same installed size.
ChainSizes(n) == {[p \in 1..n |-> s] : s \in 0..MaxTotal}

\* The fan: the packages 1..k depend on the package k + 1.
FanGraph(k) == {<<i, k + 1>> : i \in 1..k}

\* The installed sizes of a fan, MaxTotal each at most; the parents are
\* numbered by non-decreasing installed size.
FanSizes(k) ==
    {f \in [1..(k + 1) -> 0..MaxTotal] : \A p \in 1..(k - 1) : f[p] <= f[p + 1]}

\* The orders in which the package database may enumerate the packages
\* 1..n, which is the order of pkgs_by_name.values(): every permutation.
\* A graph of more packages is a chain: it has one package without parents,
\* so pick_root_packages returns the same list for each of its n! orders,
\* and two of them stand for all.
Orders(n) ==
    IF n <= MaxPkgs \/ n <= MaxFan + 1 THEN Perms(1..n)
    ELSE {[i \in 1..n |-> i], [i \in 1..n |-> n + 1 - i]}

\* Iterating a set yields its elements in an order the program does not
\* choose, the same order every time the unchanged set is iterated: every
\* assignment of an iteration order to the dep_children of the packages 1..k.
RECURSIVE IterOrders(_, _)
IterOrders(k, E) ==
    IF k = 0 THEN {<<>>}
    ELSE {Append(f, s) : f \in IterOrders(k - 1, E),
                         s \in Perms({x[2] : x \in {e \in E : e[1] = k}})}

\* Pkg.__init__ followed by the "Build tree" loop of main().
Build(n, E, sz) ==
    [p \in 1..n |->
        [size |-> FromInt(sz[p]),
         dep_children |-> {c \in 1..n : <<p, c>> \in E},
         dep_parents |-> {q \in 1..n : <<q, p>> \in E}]]

\* main() up to "del(installed_packages)", on n installed packages with the
\* dependencies E and the installed sizes sz.
Built(n, E, sz) ==
    \E it \in IterOrders(n, E) :
        /\ pkgs_by_name = Build(n, E, sz)
        /\ iter_children = it
        /\ installed_size = sz
        /\ root_packages = <<>>
        /\ next_root = 1
        /\ stack = <<>>
        /\ pc = "pick"
        /\ entered = {}
        /\ uploads = <<>>
        /\ printed = <<>>
        /\ runs = 0
        /\ first_pass = [p \in 1..n |-> None]

Init ==
    \/ \E n \in 1..MaxPkgs :
         \E E \in SmallGraphs(n) : \E sz \in SmallSizes(n, E) : Built(n, E, sz)
    \/ \E n \in (MaxPkgs + 1)..MaxChain :
         \E sz \in ChainSizes(n) : Built(n, ChainGraph(n), sz)
    \/ \E k \in 2..MaxFan :
         \E sz \in FanSizes(k) : Built(k + 1, FanGraph(k), sz)

\* ------------------------------------------------------------ call stack
\* todo: the children the for loop has still to iterate, in order.
Frame(p, d) == [pkg |-> p, depth |-> d, todo |-> <<>>, at |-> "enter"]

Top == stack[Len(stack)]

Pop == SubSeq(stack, 1, Len(stack) - 1)

ReplaceTop(f) == [stack EXCEPT ![Len(stack)] = f]

\* ------------------------------------------------------ pick_root_packages
\* Variant: every package is picked, with or without parents.
pick_every_package(m, ord) == ord

\* [p for p in pkgs_by_name.values() if len(p.dep_parents) == 0]
pick_root_packages(m, ord) ==
    SelectSeq(ord, LAMBDA p : Cardinality(m[p].dep_parents) = 0)

PickRoots ==
    /\ pc = "pick"
    /\ \E ord \in Orders(Cardinality(Names)) :
         root_packages' = pick_root_packages(pkgs_by_name, ord)
    /\ next_root' = 1
    /\ runs' = 1
    /\ pc' = "blame"
    /\ UNCHANGED <<pkgs_by_name, iter_children, installed_size, stack, entered,
                   uploads, printed, first_pass>>

\* ---------------------------------------------------------- reassign_blame
\* for pkg in root_packages: _recurse_reassign_blame(pkg, pkgs_by_name, debug)
CallRoot ==
    /\ pc = "blame"
    /\ stack = <<>>
    /\ next_root <= Len(root_packages)
    /\ stack' = <<Frame(root_packages[next_root], 0)>>
    /\ next_root' = next_root + 1
    /\ UNCHANGED <<pkgs_by_name, iter_children, installed_size, root_packages, pc,
                   entered, uploads, printed, runs, first_pass>>

\* The for loop is exhausted: reassign_blame returns to main().
EndBlame ==
    /\ pc = "blame"
    /\ stack = <<>>
    /\ next_root > Len(root_packages)
    /\ pc' = "sort"
    /\ UNCHANGED <<pkgs_by_name, iter_children, installed_size, root_packages,
                   next_root, stack, entered, uploads, printed, runs,
                   first_pass>>

\* ------------------------------------------------- _recurse_reassign_blame
\* if current.size is None: return  # already visited
\* otherwise the for loop over current.dep_children starts.
Enter ==
    /\ stack # <<>>
    /\ Top.at = "enter"
    /\ entered' = entered \cup {Top.pkg}
    /\ IF pkgs_by_name[Top.pkg].size = None
       THEN stack' = Pop
       ELSE stack' = ReplaceTop([Top EXCEPT
                         !.todo = iter_children[Top.pkg],
                         !.at = "loop"])
    /\ UNCHANGED <<pkgs_by_name, iter_children, installed_size, root_packages,
                   next_root, pc, uploads, printed, runs, first_pass>>

\* Variant: the cutoff one level too deep.
AtMaxDepthPlusOne(depth) == depth = MAX_DEPTH + 1

\* if depth == MAX_DEPTH
AtMaxDepth(depth) == depth = MAX_DEPTH

\* One iteration of the for loop below the cutoff: the recursive call on
\* the next child.
Descend ==
    /\ stack # <<>>
    /\ Top.at = "loop"
    /\ Top.todo # <<>>
    /\ ~AtMaxDepth(Top.depth)
    /\ stack' = Append(ReplaceTop([Top EXCEPT !.todo = Tail(@)]),
                       Frame(Head(Top.todo), Top.depth + 1))
    /\ UNCHANGED <<pkgs_by_name, iter_children, installed_size, root_packages,
                   next_root, pc, entered, uploads, printed, runs, first_pass>>

\* One iteration of the for loop at the cutoff: break.
Cutoff ==
    /\ stack # <<>>
    /\ Top.at = "loop"
    /\ Top.todo # <<>>
    /\ AtMaxDepth(Top.depth)
    /\ stack' = ReplaceTop([Top EXCEPT !.at = "tail"])
    /\ UNCHANGED <<pkgs_by_name, iter_children, installed_size, root_packages,
                   next_root, pc, entered, uploads, printed, runs, first_pass>>

\* Variant: the whole size is uploaded to every parent.
blame_up_undivided(size, np) == size

\* Variant: the divisor counts one parent too many.
blame_up_one_more(size, np) == FloatDiv(size, np + 1)

\* blame_up = current.size / np
blame_up(size, np) == FloatDiv(size, np)

\* Variant: the size of current is not set to None.
upload_blame_keep_size(m, current) ==
    LET share == blame_up(m[current].size, Cardinality(m[current].dep_parents))
    IN  [p \in DOMAIN m |->
            IF p \in m[current].dep_parents /\ m[p].size # None
            THEN [m[p] EXCEPT !.size = FloatAdd(@, share)]
            ELSE m[p]]

\* Variant: a parent whose size is None counts as 0 and gets the share.
upload_blame_none_as_zero(m, current) ==
    LET share == blame_up(m[current].size, Cardinality(m[current].dep_parents))
    IN  [p \in DOMAIN m |->
            IF p = current
            THEN [m[p] EXCEPT !.size = None]
            ELSE IF p \in m[current].dep_parents
                 THEN [m[p] EXCEPT !.size =
                          IF @ = None THEN share ELSE FloatAdd(@, share)]
                 ELSE m[p]]

\* current.size = None, then parent.size += blame_up for every parent whose
\* size is not None (a package that is its own parent is None by then).
upload_blame(m, current) ==
    LET share == blame_up(m[current].size, Cardinality(m[current].dep_parents))
    IN  [p \in DOMAIN m |->
            IF p = current
            THEN [m[p] EXCEPT !.size = None]
            ELSE IF p \in m[current].dep_parents /\ m[p].size # None
                 THEN [m[p] EXCEPT !.size = FloatAdd(@, share)]
                 ELSE m[p]]

\* The parents the upload loop finds with size None and skips.
SkippedParents(m, current) ==
    {p \in m[current].dep_parents : p = current \/ m[p].size = None}

\* The code after the for loop, up to the return.
Finish ==
    /\ stack # <<>>
    /\ \/ Top.at = "tail"
       \/ Top.at = "loop" /\ Top.todo = <<>>
    /\ LET current == Top.pkg
           P == pkgs_by_name[current]
       IN  IF P.size # None /\ P.dep_parents # {}
           THEN /\ pkgs_by_name' = upload_blame(pkgs_by_name, current)
                /\ uploads' = Append(uploads,
                       [pkg |-> current,
                        size |-> P.size,
                        np |-> Cardinality(P.dep_parents),
                        share |-> blame_up(P.size, Cardinality(P.dep_parents)),
                        skipped |-> SkippedParents(pkgs_by_name, current)])
           ELSE UNCHANGED <<pkgs_by_name, uploads>>
    /\ stack' = Pop
    /\ UNCHANGED <<iter_children, installed_size, root_packages, next_root, pc,
                   entered, printed, runs, first_pass>>

\* ------------------------------------------------------------------- sort
\* list.sort is stable, with reverse=True too: the element at index i of s
\* goes behind every element of a larger size and behind the elements of
\* equal size that stand before it in s.
RankDesc(s, m, i) ==
    1 + Cardinality({j \in DOMAIN s :
            \/ FloatLess(m[s[i]].size, m[s[j]].size)
            \/ j < i /\ ~FloatLess(m[s[j]].size, m[s[i]].size)})

\* s sorted by size, largest first.
SortDesc(s, m) ==
    [k \in DOMAIN s |-> s[CHOOSE i \in DOMAIN s : RankDesc(s, m, i) = k]]

\* root_packages.sort(reverse=True, key=lambda p: p.size); comparing a key
\* that is None raises TypeError, which ends the program.
Sort ==
    /\ pc = "sort"
    /\ IF /\ Len(root_packages) >= 2
          /\ \E i \in DOMAIN root_packages :
                pkgs_by_name[root_packages[i]].size = None
       THEN pc' = "raised" /\ UNCHANGED root_packages
       ELSE /\ root_packages' = SortDesc(root_packages, pkgs_by_name)
            /\ pc' = "print"
    /\ UNCHANGED <<pkgs_by_name, iter_children, installed_size, next_root, stack,
                   entered, uploads, printed, runs, first_pass>>

\* ---------------------------------------------------------- print_summary
\* root_packages[:num_packages_max]
Slice(s, n) ==
    IF n >= 0
    THEN SubSeq(s, 1, IF n < Len(s) THEN n ELSE Len(s))
    ELSE SubSeq(s, 1, IF Len(s) + n > 0 THEN Len(s) + n ELSE 0)

\* The values of args.n: the default and the small ones.
NumPackagesMax == (0..MaxN) \cup {DEFAULT_N}

PrintSummary ==
    /\ pc = "print"
    /\ \E n \in NumPackagesMax : printed' = Slice(root_packages, n)
    /\ pc' = "done"
    /\ UNCHANGED <<pkgs_by_name, iter_children, installed_size, root_packages,
                   next_root, stack, entered, uploads, runs, first_pass>>

\* ------------------------------------------------------------------ rerun
\* A caller runs reassign_blame a second time on the graph the first run
\* left, with the same list of roots.
Rerun ==
    /\ pc = "sort"
    /\ runs = 1
    /\ first_pass' = [p \in Names |-> pkgs_by_name[p].size]
    /\ runs' = 2
    /\ next_root' = 1
    /\ pc' = "blame"
    /\ UNCHANGED <<pkgs_by_name, iter_children, installed_size, root_packages, stack,
                   entered, uploads, printed>>

\* --------------------------------------------------------- specifications
Next ==
    \/ PickRoots
    \/ CallRoot
    \/ Enter
    \/ Descend
    \/ Cutoff
    \/ Finish
    \/ EndBlame
    \/ Sort
    \/ PrintSummary

\* main()
Spec == Init /\ [][Next]_vars

\* main(); the program is single threaded and runs whenever it can.
FairSpec == Init /\ [][Next]_vars /\ WF_vars(Next)

NextRerun == Next \/ Rerun

\* main() with reassign_blame run twice before the sort.
SpecRerun == Init /\ [][NextRerun]_vars

\* ===================================================== claim vocabulary
Size(p) == pkgs_by_name[p].size

Collapsed(p) == Size(p) = None

\* The packages no package depends on.
Roots == {p \in Names : pkgs_by_name[p].dep_parents = {}}

\* reassign_blame has returned to main().
EngineDone == pc \in {"sort", "print", "done"}

Sizes == [p \in Names |-> Size(p)]

\* Everything a package reaches by following dep_children from S.
RECURSIVE Reach(_)
Reach(S) ==
    LET T == S \cup UNION {pkgs_by_name[p].dep_children : p \in S}
    IN  IF T = S THEN S ELSE Reach(T)

Acyclic == \A p \in Names : p \notin Reach(pkgs_by_name[p].dep_children)

\* ------------------------------------------------------- exact arithmetic
\* The claims speak of sums and quotients of sizes as real numbers.  A real
\* number r that is a multiple of 2^-72 is the integer r * 2^72, written
\* <<w2, w1, w0>> = w2 * 2^54 + w1 * 2^27 + w0 with w1, w0 < 2^27.  Every
\* double from 2^-20 up to 2^8 is such a number; the model's sizes are.
ExactFromInt(i) == <<i * 2^18, 0, 0>>

\* The value of the double x, for x[3] in -72..-45.
Exact(x) ==
    IF x = Zero THEN <<0, 0, 0>>
    ELSE LET s == x[3] + 72
             t == 27 - s
         IN  <<x[1] \div 2^t,
               (x[1] % 2^t) * 2^s + x[2] \div 2^t,
               (x[2] % 2^t) * 2^s>>

ExactAdd(a, b) ==
    LET s0 == a[3] + b[3]
        s1 == a[2] + b[2] + s0 \div Limb
    IN  <<a[1] + b[1] + s1 \div Limb, s1 % Limb, s0 % Limb>>

\* a * k for an int k, 0 <= k <= 15.
ExactMul(a, k) ==
    LET p0 == a[3] * k
        p1 == a[2] * k + p0 \div Limb
    IN  <<a[1] * k + p1 \div Limb, p1 % Limb, p0 % Limb>>

ExactLess(a, b) ==
    \/ a[1] < b[1]
    \/ a[1] = b[1] /\ a[2] < b[2]
    \/ a[1] = b[1] /\ a[2] = b[2] /\ a[3] < b[3]

ExactLeq(a, b) == a = b \/ ExactLess(a, b)

\* Sum of the values f[p] over the packages p <= k of S whose f[p] is a
\* number.
RECURSIVE SumUpTo(_, _, _)
SumUpTo(f, S, k) ==
    IF k = 0 THEN ExactFromInt(0)
    ELSE IF k \in S /\ f[k] # None
         THEN ExactAdd(Exact(f[k]), SumUpTo(f, S, k - 1))
         ELSE SumUpTo(f, S, k - 1)

\* The same over all packages of S.
SumOver(f, S) == SumUpTo(f, S, Cardinality(Names))

\* Sum of the installed sizes of all packages.
TotalInstalled == ExactFromInt(SumInts(installed_size, Names))

\* Floating-point tolerance: 2^-30 of the sum of the installed sizes.
Tolerance == <<0, SumInts(installed_size, Names) * 2^15, 0>>

\* a and b differ by no more than the tolerance.
Near(a, b) ==
    /\ ExactLeq(a, ExactAdd(b, Tolerance))
    /\ ExactLeq(b, ExactAdd(a, Tolerance))

\* ------------------------------------------------------------------- C1
\* C1: for an acyclic dependency graph, once reassign_blame has returned,
\* the sizes of the root packages add up to the installed sizes of all
\* packages, up to floating-point rounding.
C1_SumConservation ==
    (EngineDone /\ Acyclic) => Near(SumOver(Sizes, Roots), TotalInstalled)

\* ------------------------------------------------------------------- C2
\* C2: once reassign_blame has returned, the packages whose size is not None
\* are exactly the packages without parents.
C2_RootDetection ==
    EngineDone => {p \in Names : ~Collapsed(p)} = Roots

\* ------------------------------------------------------------------- C8
\* C8: when reassign_blame returns, a call of _recurse_reassign_blame has
\* been made on every package of pkgs_by_name, the packages with parents
\* included.
C8_EveryNodeEntered ==
    EngineDone => entered = Names

\* ------------------------------------------------------------------- C7
\* C7: the list handed to print_summary holds root packages only, ordered by
\* size descending and, among equal sizes, by name; the first n are printed.
Ranked(s) ==
    \A i, j \in DOMAIN s :
        i < j => \/ FloatLess(Size(s[j]), Size(s[i]))
                 \/ Size(s[i]) = Size(s[j]) /\ s[i] < s[j]

C7_RankedOutput ==
    pc = "done" =>
        /\ \A i \in DOMAIN root_packages : root_packages[i] \in Roots
        /\ Ranked(root_packages)
        /\ \E n \in NumPackagesMax : printed = Slice(root_packages, n)

\* ------------------------------------------------------------------- C3
\* C3: on every graph the run ends, and the depth argument of an active call
\* of _recurse_reassign_blame never exceeds MAX_DEPTH: the call at position
\* i of the stack has depth i - 1, and at most MAX_DEPTH + 1 calls are active.
DepthBounded ==
    /\ Len(stack) <= MAX_DEPTH + 1
    /\ \A i \in DOMAIN stack :
          stack[i].depth = i - 1 /\ stack[i].depth <= MAX_DEPTH

C3_BoundedTermination == []DepthBounded /\ <>(pc = "done")

\* A call is active at depth MAX_DEPTH on a package with children, and the
\* for loop breaks.
C3_Witness ==
    /\ stack # <<>>
    /\ Top.depth = MAX_DEPTH
    /\ Top.at = "tail"

\* ------------------------------------------------------------------- C4
\* C4: on the graph of two packages of positive size that depend on each
\* other and on nothing else, the run ends, and at the end at least one of
\* the two has a size that is not None and those sizes add up to more than 0.
IsolatedTwoCycle ==
    /\ Names = {1, 2}
    /\ pkgs_by_name[1].dep_children = {2}
    /\ pkgs_by_name[2].dep_children = {1}
    /\ installed_size[1] > 0
    /\ installed_size[2] > 0

BlameRetained ==
    /\ \E p \in Names : ~Collapsed(p)
    /\ ExactLess(ExactFromInt(0), SumOver(Sizes, Names))

C4_TwoCycleKeepsBlame == IsolatedTwoCycle ~> (pc = "done" /\ BlameRetained)

C4_Witness == IsolatedTwoCycle /\ pc = "done"

\* ------------------------------------------------------------------- C5
\* C5: a second run of reassign_blame on the graph the first run left, with
\* the same roots, changes the size of no package.
C5_Idempotent ==
    runs = 2 => \A p \in Names : Size(p) = first_pass[p]

\* The second run has returned on a graph in which the first run uploaded
\* blame, and it made its calls on the roots.
C5_Witness ==
    /\ runs = 2
    /\ EngineDone
    /\ uploads # <<>>
    /\ next_root > 1

\* ------------------------------------------------------------------- C6
\* The step sets the size of current to None while none of its parents is
\* None.
CollapsesWithLiveParents(current) ==
    /\ ~Collapsed(current)
    /\ pkgs_by_name'[current].size = None
    /\ \A p \in pkgs_by_name[current].dep_parents : ~Collapsed(p)

NewSizes == [p \in Names |-> pkgs_by_name'[p].size]

\* The size of no package outside parents grows: current becomes None, the
\* others keep their size.
OthersKeep(current, parents) ==
    \A q \in Names \ parents :
        pkgs_by_name'[q].size = IF q = current THEN None ELSE Size(q)

\* C6 as stated: whenever a package with k >= 1 parents and size S becomes
\* None while none of its parents is None, the size of each parent grows by
\* exactly S/k (k times the new size is k times the old size plus S), the k
\* increases add up to S and the size of no other package grows.
SplitsExactly(current) ==
    LET parents == pkgs_by_name[current].dep_parents
        k == Cardinality(parents)
        S == Exact(Size(current))
    IN  /\ \A p \in parents :
              ExactMul(Exact(NewSizes[p]), k) = ExactAdd(ExactMul(Exact(Size(p)), k), S)
        /\ SumOver(NewSizes, parents) = ExactAdd(SumOver(Sizes, parents), S)
        /\ OthersKeep(current, parents)

C6_EqualSplit_AsStated ==
    [][\A c \in Names : CollapsesWithLiveParents(c) => SplitsExactly(c)]_vars

\* C6 amended: the same for a package that is not its own parent, with the
\* increase of each parent and the sum of the increases equal to S/k and to
\* S up to floating-point rounding.
Splits(current) ==
    LET parents == pkgs_by_name[current].dep_parents
        k == Cardinality(parents)
        S == Exact(Size(current))
    IN  /\ \A p \in parents :
              Near(ExactMul(Exact(NewSizes[p]), k),
                   ExactAdd(ExactMul(Exact(Size(p)), k), S))
        /\ Near(SumOver(NewSizes, parents), ExactAdd(SumOver(Sizes, parents), S))
        /\ OthersKeep(current, parents)

C6_EqualSplit ==
    [][\A c \in Names :
          (CollapsesWithLiveParents(c) /\ c \notin pkgs_by_name[c].dep_parents)
              => Splits(c)]_vars

\* The last upload split a size between two or more parents, none skipped,
\* and the share is not the exact quotient: it was rounded.
C6_Witness ==
    /\ uploads # <<>>
    /\ LET u == uploads[Len(uploads)]
       IN  /\ u.np >= 2
           /\ u.skipped = {}
           /\ FloatLess(Zero, u.share)
           /\ ExactMul(Exact(u.share), u.np) # Exact(u.size)

\* ------------------------------------------------------------------- C9
\* C9: a size that is None stays None; a package uploads blame at most once,
\* and only while its size is a number; a parent skipped by an upload is and
\* stays None.
AbsorbingStep ==
    /\ \A p \in Names : Collapsed(p) => pkgs_by_name'[p].size = None
    /\ uploads' # uploads =>
          LET u == uploads'[Len(uploads')]
          IN  /\ uploads' = Append(uploads, u)
              /\ ~Collapsed(u.pkg)
              /\ \A i \in DOMAIN uploads : uploads[i].pkg # u.pkg
              /\ \A p \in u.skipped : pkgs_by_name'[p].size = None

C9_CollapsedAbsorbing == [][AbsorbingStep]_vars

\* An upload met a parent, another package, whose size was None already.
C9_Witness ==
    \E i \in DOMAIN uploads : uploads[i].skipped \ {uploads[i].pkg} # {}

\* ------------------------------------------------------------------ C10
\* A size that is not None is at least the package's installed size.
AtLeastOwnSize ==
    \A p \in Names : ~Collapsed(p) => FloatLeq(FromInt(installed_size[p]), Size(p))

\* C10 as stated: the sizes that are not None never add up to more than the
\* installed sizes of all packages, their sum never grows from one step to
\* the next, and a size that is not None is at least the package's installed
\* size.
NoBlameCreatedExactly ==
    /\ ExactLeq(SumOver(Sizes, Names), TotalInstalled)
    /\ AtLeastOwnSize

SumNeverGrowsExactly ==
    ExactLeq(SumOver(NewSizes, Names), SumOver(Sizes, Names))

C10_NoBlameCreated_AsStated ==
    []NoBlameCreatedExactly /\ [][SumNeverGrowsExactly]_vars

\* C10 amended: the same up to floating-point rounding: the sum exceeds the
\* installed sizes, and grows in a step, by no more than the tolerance.
NoBlameCreated ==
    /\ ExactLeq(SumOver(Sizes, Names), ExactAdd(TotalInstalled, Tolerance))
    /\ AtLeastOwnSize

SumNeverGrows ==
    ExactLeq(SumOver(NewSizes, Names), ExactAdd(SumOver(Sizes, Names), Tolerance))

C10_NoBlameCreated == []NoBlameCreated /\ [][SumNeverGrows]_vars

\* The run is over, a root holds more than its installed size, and rounding
\* has made the sizes add up to more than the installed sizes.
C10_Witness ==
    /\ pc = "done"
    /\ \E p \in Roots : FloatLess(FromInt(installed_size[p]), Size(p))
    /\ ExactLess(TotalInstalled, SumOver(Sizes, Names))

====
